---- MODULE Spec2Model ----
(***************************************************************************)
(* CodeGenFunction (src/CodeGen/CodeGenFunction.cpp): the per-function     *)
(* state used while generating LLVM IR for one FunctionDecl.               *)
(*                                                                         *)
(* GenerateCode is modelled one source step per action (pc names the next  *)
(* step).  assert(...) is modelled as the abort of an assertion-enabled    *)
(* build: the run stops in pc = "aborted" and abortAt names the assertion. *)
(* The statement emitter (EmitStmt), the parameter emitter (EmitParmDecl)  *)
(* and EmitBlock live in other files; they are modelled from the           *)
(* specification as a bounded sequence of emitter operations.              *)
(***************************************************************************)
EXTENDS Integers, Sequences, FiniteSets, TLC

\* ---------------------------------------------------------------- bounds
MaxParams == 1          \* declared parameters of the FunctionDecl
MaxBodyOps == 3         \* emitter operations performed by one body

OrderBodyOps == 2       \* the same, for the declarations of InitOrder

Labels == {"L", "M"}                  \* LabelStmts of the body
BlockNames == {"for.cond", "for.end"} \* names handed to StartBlock

VARIABLES
    pc,                 \* next step of GenerateCode
    abortAt,            \* the assertion (or crash) that stopped the run
    FD,                 \* the FunctionDecl being generated
    CurFn,              \* the llvm::Function: linkage, visibility, attrs, args, block list
    BB,                 \* arena of every llvm::BasicBlock ever created
    InsertBlock,        \* Builder.GetInsertBlock(), 0 = none
    AllocaInsertPt,     \* TRUE while the member points at the "allocapt" marker
    EntryBB,            \* local EntryBB, 0 before it is created
    ParamAttrsVec,      \* local llvm::ParamAttrsVector
    AI,                 \* local arg_iterator, as an index into the arguments
    i,                  \* loop counter of the parameter loop
    LabelMap,           \* LabelStmt -> BasicBlock, 0 = null
    LabelBB,            \* label and result of the last getBasicBlockForLabel call
    BreakContinueStack, \* break/continue targets
    trace,              \* emitter operations performed so far
    fuel,               \* emitter operations the body may still perform
    verifierRuns        \* calls of verifyFunction

vars == <<pc, abortAt, FD, CurFn, BB, InsertBlock, AllocaInsertPt, EntryBB,
          ParamAttrsVec, AI, i, LabelMap, LabelBB, BreakContinueStack, trace,
          fuel, verifierRuns>>

\* ------------------------------------------------------------ instructions
Inst(o, t) == [op |-> o, tgt |-> t]
AllocaPt == Inst("allocapt", 0)     \* the BitCastInst named "allocapt"
Alloca == Inst("alloca", 0)
Store == Inst("store", 0)
Plain == Inst("inst", 0)
Br(b) == Inst("br", b)
RetVoid == Inst("retvoid", 0)
RetUndef == Inst("retundef", 0)
RetVal == Inst("retval", 0)

IsTerminator(x) == x.op \in {"br", "retvoid", "retundef", "retval"}

NewBlock(n, attached) == [name |-> n, insts |-> <<>>, parent |-> attached, erased |-> FALSE]

\* llvm pred_begin/pred_end: the blocks holding a terminator that targets b
Preds(bbs, b) ==
    {c \in 1..Len(bbs) : /\ ~bbs[c].erased
                         /\ \E k \in 1..Len(bbs[c].insts) : bbs[c].insts[k] = Br(b)}

\* Faulty variant: a block without predecessors counts as dummy even if it
\* holds instructions
isDummyBlock_NoPreds(bbs, b) == Preds(bbs, b) = {}

isDummyBlock(bbs, b) == bbs[b].insts = <<>> /\ Preds(bbs, b) = {}

\* ---------------------------------------------------------------- inputs
hasAggregateLLVMType(T) == T = "struct"

\* the IR function's return type for a declared result type
ReturnTypeOf(T) == IF T = "int" THEN "i32" ELSE "void"

Decl(imp, exp, weak, inl, stat, vis, nothrow, noret, res, np) ==
    [DLLImport |-> imp, DLLExport |-> exp, Weak |-> weak, Inline |-> inl,
     Static |-> stat, Visibility |-> vis, NoThrow |-> nothrow, NoReturn |-> noret,
     ResultType |-> res, NumParams |-> np]

PlainDecls ==
    {Decl(FALSE, FALSE, FALSE, FALSE, FALSE, "none", FALSE, FALSE, res, np) :
        res \in {"void", "int", "struct"}, np \in 0..MaxParams}


Markers == {"none", "hidden"}        \* VisibilityAttr absent, or the visibility it names

\* every combination of the attribute markers, on a declaration with an empty body
MarkedDecls ==
    {Decl(imp, exp, weak, inl, stat, vis, nothrow, noret, "int", np) :
        imp \in BOOLEAN, exp \in BOOLEAN, weak \in BOOLEAN, inl \in BOOLEAN,
        stat \in BOOLEAN, vis \in Markers, nothrow \in BOOLEAN, noret \in BOOLEAN,
        np \in 0..MaxParams}

\* CGM.GetAddrOfFunctionDecl(FD, true): the function as the module hands it over
Function(hadBody, nargs, res) ==
    [linkage |-> "external", visibility |-> "default",
     attrsSet |-> FALSE, paramAttrs |-> <<>>,
     numArgs |-> nargs, argNames |-> [k \in 1..nargs |-> ""],
     retTy |-> ReturnTypeOf(res),
     blocks |-> IF hadBody THEN <<1>> ELSE <<>>]

OldBody(hadBody) ==
    IF hadBody
    THEN <<[name |-> "old", insts |-> <<RetVoid>>, parent |-> TRUE, erased |-> FALSE]>>
    ELSE <<>>

InitLocals ==
    /\ pc = "start"
    /\ abortAt = "none"
    /\ InsertBlock = 0
    /\ AllocaInsertPt = FALSE
    /\ EntryBB = 0
    /\ ParamAttrsVec = <<>>
    /\ AI = 0
    /\ i = 0
    /\ LabelMap = [l \in Labels |-> 0]
    /\ LabelBB = [label |-> "none", bb |-> 0]
    /\ BreakContinueStack = <<>>
    /\ trace = <<>>
    /\ verifierRuns = 0

\* the arguments the IR function of a declaration has when the two agree
ArgsOf(fd) == fd.NumParams + (IF hasAggregateLLVMType(fd.ResultType) THEN 1 ELSE 0)

\* plain declarations with a matching IR function, bodies of up to MaxBodyOps operations
Init ==
    /\ FD \in PlainDecls
    /\ CurFn = Function(FALSE, ArgsOf(FD), FD.ResultType)
    /\ BB = OldBody(FALSE)
    /\ fuel = MaxBodyOps
    /\ InitLocals

\* plain declarations, any argument count on the IR function, empty body
InitArgs ==
    /\ FD \in PlainDecls
    /\ \E nargs \in 0..(MaxParams + 2) :
          /\ CurFn = Function(FALSE, nargs, FD.ResultType)
          /\ BB = OldBody(FALSE)
    /\ fuel = 0
    /\ InitLocals

\* declarations carrying markers, with a matching IR function and short bodies
OrderDecls ==
    {Decl(TRUE, FALSE, weak, FALSE, TRUE, "hidden", TRUE, TRUE, res, np) :
        weak \in BOOLEAN, res \in {"void", "int"}, np \in 0..MaxParams}

InitOrder ==
    /\ FD \in OrderDecls
    /\ CurFn = Function(FALSE, ArgsOf(FD), FD.ResultType)
    /\ BB = OldBody(FALSE)
    /\ fuel = OrderBodyOps
    /\ InitLocals

\* every marker combination, IR function with or without a body, empty body
InitABI ==
    /\ FD \in MarkedDecls
    /\ \E hadBody \in BOOLEAN :
          /\ CurFn = Function(hadBody, FD.NumParams, FD.ResultType)
          /\ BB = OldBody(hadBody)
    /\ fuel = 0
    /\ InitLocals

\* --------------------------------------------------------------- GenerateCode
Abort(why) ==
    /\ pc' = "aborted"
    /\ abortAt' = why

emitterState == <<LabelMap, LabelBB, BreakContinueStack, trace, fuel>>
locals == <<EntryBB, ParamAttrsVec, AI, i>>

\* Faulty variant: the isDeclaration assertion is missing
Enter_Unchecked ==
    /\ pc = "start"
    /\ pc' = "linkage"
    /\ UNCHANGED <<abortAt, FD, CurFn, BB, InsertBlock, AllocaInsertPt, locals,
                   emitterState, verifierRuns>>

\* lines 59-67.  The cached LLVMIntTy / LLVMPointerWidth are read by no step below.
Enter ==
    /\ pc = "start"
    /\ IF CurFn.blocks # <<>>
       THEN Abort("Function already has body?")
       ELSE pc' = "linkage" /\ abortAt' = abortAt
    /\ UNCHANGED <<FD, CurFn, BB, InsertBlock, AllocaInsertPt, locals, emitterState,
                   verifierRuns>>

\* Faulty variant: the storage class is tested before the dll attributes
LinkageOf_StaticFirst(fd, cur) ==
    IF fd.Static THEN "internal"
    ELSE IF fd.DLLImport THEN "dllimport"
    ELSE IF fd.DLLExport THEN "dllexport"
    ELSE IF fd.Weak \/ fd.Inline THEN "weak"
    ELSE cur

\* lines 71-78
LinkageOf(fd, cur) ==
    IF fd.DLLImport THEN "dllimport"
    ELSE IF fd.DLLExport THEN "dllexport"
    ELSE IF fd.Weak \/ fd.Inline THEN "weak"
    ELSE IF fd.Static THEN "internal"
    ELSE cur

SetLinkage ==
    /\ pc = "linkage"
    /\ CurFn' = [CurFn EXCEPT !.linkage = LinkageOf(FD, @)]
    /\ pc' = "visibility"
    /\ UNCHANGED <<abortAt, FD, BB, InsertBlock, AllocaInsertPt, locals, emitterState,
                   verifierRuns>>

\* lines 80-81
SetVisibility ==
    /\ pc = "visibility"
    /\ CurFn' = IF FD.Visibility # "none"
                THEN [CurFn EXCEPT !.visibility = FD.Visibility]
                ELSE CurFn
    /\ pc' = "attrs"
    /\ UNCHANGED <<abortAt, FD, BB, InsertBlock, AllocaInsertPt, locals, emitterState,
                   verifierRuns>>

\* Faulty variant: every attribute is given index 0
ParamAttrsOf_IndexZero(fd) ==
    LET v1 == IF fd.NoThrow THEN <<[index |-> 0, attr |-> "nounwind"]>> ELSE <<>>
    IN  IF fd.NoReturn THEN Append(v1, [index |-> 0, attr |-> "noreturn"]) ELSE v1

\* Faulty variant: the second test is an else-branch of the first
ParamAttrsOf_ElseIf(fd) ==
    IF fd.NoThrow THEN <<[index |-> 0, attr |-> "nounwind"]>>
    ELSE IF fd.NoReturn THEN <<[index |-> 0, attr |-> "noreturn"]>>
    ELSE <<>>

\* lines 85-92: ParamAttrsWithIndex::get(ParamAttrsVec.size(), attr) pushed in order
ParamAttrsOf(fd) ==
    LET v1 == IF fd.NoThrow THEN <<[index |-> 0, attr |-> "nounwind"]>> ELSE <<>>
    IN  IF fd.NoReturn THEN Append(v1, [index |-> Len(v1), attr |-> "noreturn"]) ELSE v1

\* lines 85-95
SetParamAttrs ==
    /\ pc = "attrs"
    /\ ParamAttrsVec' = ParamAttrsOf(FD)
    /\ CurFn' = IF ParamAttrsVec' # <<>>
                THEN [CurFn EXCEPT !.attrsSet = TRUE, !.paramAttrs = ParamAttrsVec']
                ELSE CurFn
    /\ pc' = "entry"
    /\ UNCHANGED <<abortAt, FD, BB, InsertBlock, AllocaInsertPt, EntryBB, AI, i,
                   emitterState, verifierRuns>>

\* Faulty variant: the marker is not inserted into the entry block
CreateEntry_NoMarker ==
    /\ pc = "entry"
    /\ LET id == Len(BB) + 1 IN
          /\ BB' = Append(BB, NewBlock("entry", TRUE))
          /\ CurFn' = [CurFn EXCEPT !.blocks = Append(@, id)]
          /\ EntryBB' = id
          /\ InsertBlock' = id
    /\ AllocaInsertPt' = TRUE
    /\ pc' = "args"
    /\ UNCHANGED <<abortAt, FD, ParamAttrsVec, AI, i, emitterState, verifierRuns>>

\* lines 98-107
CreateEntry ==
    /\ pc = "entry"
    /\ LET id == Len(BB) + 1 IN
          /\ BB' = Append(BB, [NewBlock("entry", TRUE) EXCEPT !.insts = <<AllocaPt>>])
          /\ CurFn' = [CurFn EXCEPT !.blocks = Append(@, id)]
          /\ EntryBB' = id
          /\ InsertBlock' = id
    /\ AllocaInsertPt' = TRUE
    /\ pc' = "args"
    /\ UNCHANGED <<abortAt, FD, ParamAttrsVec, AI, i, emitterState, verifierRuns>>

\* ------------------------------------------------ builder and block helpers
\* Builder.Insert at the end of the insert block
Emit(bbs, b, x) == [bbs EXCEPT ![b].insts = Append(@, x)]

AnchorPos(insts) == CHOOSE k \in 1..Len(insts) : insts[k] = AllocaPt

\* CreateTempAlloca: a stack slot inserted before AllocaInsertPt in the entry block
CreateTempAlloca(bbs, entry) ==
    LET s == bbs[entry].insts
        k == AnchorPos(s)
    IN  [bbs EXCEPT ![entry].insts = SubSeq(s, 1, k - 1) \o <<Alloca>> \o SubSeq(s, k, Len(s))]

\* EmitParmDecl: a slot for the parameter at the anchor, the argument stored at the cursor
EmitParmDecl(bbs, entry, cursor) == Emit(CreateTempAlloca(bbs, entry), cursor, Store)

\* BasicBlock::eraseFromParent
EraseBlock(bbs, b) == [bbs EXCEPT ![b].parent = FALSE, ![b].erased = TRUE]

Without(seq, x) == SelectSeq(seq, LAMBDA y : y # x)

\* The outcomes of undefined behaviour (an end() iterator dereferenced)
UBOutcomes == {"crash", "continue"}

\* lines 110-116
NameAggResult ==
    /\ pc = "args"
    /\ i' = 0
    /\ IF ~hasAggregateLLVMType(FD.ResultType)
       THEN /\ AI' = 0
            /\ pc' = "params"
            /\ UNCHANGED <<abortAt, CurFn>>
       ELSE IF CurFn.numArgs > 0
       THEN /\ CurFn' = [CurFn EXCEPT !.argNames[1] = "agg.result"]
            /\ AI' = 1
            /\ pc' = "params"
            /\ UNCHANGED abortAt
       ELSE \* AI == arg_end(): AI->setName and ++AI act on the end sentinel
            \E o \in UBOutcomes :
               /\ AI' = 1
               /\ UNCHANGED CurFn
               /\ IF o = "crash"
                  THEN Abort("crash: arg_end() dereferenced")
                  ELSE pc' = "params" /\ abortAt' = abortAt
    /\ UNCHANGED <<FD, BB, InsertBlock, AllocaInsertPt, EntryBB, ParamAttrsVec,
                   emitterState, verifierRuns>>

\* lines 118-121, one iteration
BindParam ==
    /\ pc = "params"
    /\ i # FD.NumParams
    /\ IF AI = CurFn.numArgs
       THEN /\ Abort("Argument mismatch!")
            /\ UNCHANGED <<CurFn, BB, AI, i>>
       ELSE IF AI < CurFn.numArgs
       THEN /\ CurFn' = [CurFn EXCEPT !.argNames[AI + 1] = "param"]
            /\ BB' = EmitParmDecl(BB, EntryBB, InsertBlock)
            /\ AI' = AI + 1
            /\ i' = i + 1
            /\ UNCHANGED <<pc, abortAt>>
       ELSE \* AI is past arg_end(): the assertion passes and EmitParmDecl reads garbage
            \E o \in UBOutcomes :
               IF o = "crash"
               THEN /\ Abort("crash: argument past arg_end()")
                    /\ UNCHANGED <<CurFn, BB, AI, i>>
               ELSE /\ BB' = EmitParmDecl(BB, EntryBB, InsertBlock)
                    /\ AI' = AI + 1
                    /\ i' = i + 1
                    /\ UNCHANGED <<pc, abortAt, CurFn>>
    /\ UNCHANGED <<FD, InsertBlock, AllocaInsertPt, EntryBB, ParamAttrsVec,
                   emitterState, verifierRuns>>

\* Faulty variant: the loop is left while parameters remain
ParamsDone_Early ==
    /\ pc = "params"
    /\ pc' = "body"
    /\ UNCHANGED <<abortAt, FD, CurFn, BB, InsertBlock, AllocaInsertPt, locals,
                   emitterState, verifierRuns>>

\* line 118, loop exit: i == e
ParamsDone ==
    /\ pc = "params"
    /\ i = FD.NumParams
    /\ pc' = "body"
    /\ UNCHANGED <<abortAt, FD, CurFn, BB, InsertBlock, AllocaInsertPt, locals,
                   emitterState, verifierRuns>>

\* Faulty variant: the new block is created inside the function
getBasicBlockForLabel_Inserted(map, bbs, S) ==
    IF map[S] # 0
    THEN [map |-> map, bbs |-> bbs, bb |-> map[S]]
    ELSE [map |-> [map EXCEPT ![S] = Len(bbs) + 1],
          bbs |-> Append(bbs, NewBlock(S, TRUE)),
          bb  |-> Len(bbs) + 1]

\* Faulty variant: the early return on an existing entry is missing
getBasicBlockForLabel_AlwaysNew(map, bbs, S) ==
    [map |-> [map EXCEPT ![S] = Len(bbs) + 1],
     bbs |-> Append(bbs, NewBlock(S, FALSE)),
     bb  |-> Len(bbs) + 1]

\* ---------------------------------------------------- label and block lookup
\* lines 36-42: the block of LabelMap[S], created (not inserted) on the first request
getBasicBlockForLabel(map, bbs, S) ==
    IF map[S] # 0
    THEN [map |-> map, bbs |-> bbs, bb |-> map[S]]
    ELSE [map |-> [map EXCEPT ![S] = Len(bbs) + 1],
          bbs |-> Append(bbs, NewBlock(S, FALSE)),
          bb  |-> Len(bbs) + 1]

\* EmitBlock: insert the block at the end of the function and move the cursor to it
EmitBlock(bbs, blocks, b) ==
    [bbs |-> [bbs EXCEPT ![b].parent = TRUE], blocks |-> Append(blocks, b), cursor |-> b]

\* Faulty variant: a block is started without looking at the insert block
StartBlock_AlwaysNew(bbs, blocks, cursor, N) ==
    EmitBlock(Append(bbs, NewBlock(N, FALSE)), blocks, Len(bbs) + 1)

\* lines 159-165
StartBlock(bbs, blocks, cursor, N) ==
    IF ~isDummyBlock(bbs, cursor)
    THEN EmitBlock(Append(bbs, NewBlock(N, FALSE)), blocks, Len(bbs) + 1)
    ELSE [bbs |-> [bbs EXCEPT ![cursor].name = N], blocks |-> blocks, cursor |-> cursor]

\* ------------------------------------------------------ the statement emitter
\* One operation of EmitStmt(FD->getBody()); trace records it.
Op(o, a) == [op |-> o, arg |-> a]

EmitterStep(o, a) ==
    /\ pc = "body"
    /\ fuel > 0
    /\ fuel' = fuel - 1
    /\ trace' = Append(trace, Op(o, a))
    /\ UNCHANGED <<pc, abortAt, FD, AllocaInsertPt, locals, verifierRuns>>

\* a reference to label l (a goto's target looked up, not yet branched to)
LookupLabel(l) ==
    /\ EmitterStep("lookup", l)
    /\ LET r == getBasicBlockForLabel(LabelMap, BB, l) IN
          /\ LabelMap' = r.map
          /\ BB' = r.bbs
          /\ LabelBB' = [label |-> l, bb |-> r.bb]
    /\ UNCHANGED <<CurFn, InsertBlock, BreakContinueStack>>

\* the labeled statement l: its block is looked up and emitted (each label once)
EmitLabelStmt(l) ==
    /\ EmitterStep("label", l)
    /\ IF LabelMap[l] = 0 THEN TRUE ELSE ~BB[LabelMap[l]].parent
    /\ LET r == getBasicBlockForLabel(LabelMap, BB, l)
           e == EmitBlock(r.bbs, CurFn.blocks, r.bb)
       IN  /\ LabelMap' = r.map
           /\ LabelBB' = [label |-> l, bb |-> r.bb]
           /\ BB' = e.bbs
           /\ CurFn' = [CurFn EXCEPT !.blocks = e.blocks]
           /\ InsertBlock' = e.cursor
    /\ UNCHANGED BreakContinueStack

\* goto l: a branch to the label's block at the cursor
EmitGoto(l) ==
    /\ EmitterStep("goto", l)
    /\ LET r == getBasicBlockForLabel(LabelMap, BB, l) IN
          /\ LabelMap' = r.map
          /\ LabelBB' = [label |-> l, bb |-> r.bb]
          /\ BB' = Emit(r.bbs, InsertBlock, Br(r.bb))
    /\ UNCHANGED <<CurFn, InsertBlock, BreakContinueStack>>

\* a loop header, case or similar boundary: StartBlock(n)
EmitStartBlock(n) ==
    /\ EmitterStep("StartBlock", n)
    /\ LET r == StartBlock(BB, CurFn.blocks, InsertBlock, n) IN
          /\ BB' = r.bbs
          /\ CurFn' = [CurFn EXCEPT !.blocks = r.blocks]
          /\ InsertBlock' = r.cursor
    /\ UNCHANGED <<LabelMap, LabelBB, BreakContinueStack>>

\* an expression statement: one non-terminator instruction at the cursor
EmitInst ==
    /\ EmitterStep("inst", "")
    /\ BB' = Emit(BB, InsertBlock, Plain)
    /\ UNCHANGED <<CurFn, InsertBlock, LabelMap, LabelBB, BreakContinueStack>>

\* an explicit return statement
EmitReturn ==
    /\ EmitterStep("return", "")
    /\ BB' = Emit(BB, InsertBlock, IF CurFn.retTy = "void" THEN RetVoid ELSE RetVal)
    /\ UNCHANGED <<CurFn, InsertBlock, LabelMap, LabelBB, BreakContinueStack>>

\* a local variable: a stack slot at the allocation anchor
EmitAlloca ==
    /\ EmitterStep("alloca", "")
    /\ BB' = CreateTempAlloca(BB, EntryBB)
    /\ UNCHANGED <<CurFn, InsertBlock, LabelMap, LabelBB, BreakContinueStack>>

\* loop or switch entry
PushBreakContinue ==
    /\ EmitterStep("push", "")
    /\ BreakContinueStack' = Append(BreakContinueStack,
                                    [BreakBlock |-> InsertBlock, ContinueBlock |-> InsertBlock])
    /\ UNCHANGED <<CurFn, BB, InsertBlock, LabelMap, LabelBB>>

\* loop or switch exit
PopBreakContinue ==
    /\ EmitterStep("pop", "")
    /\ BreakContinueStack # <<>>
    /\ BreakContinueStack' = SubSeq(BreakContinueStack, 1, Len(BreakContinueStack) - 1)
    /\ UNCHANGED <<CurFn, BB, InsertBlock, LabelMap, LabelBB>>

\* line 124: EmitStmt returns
EmitStmtReturns ==
    /\ pc = "body"
    /\ pc' = "fallthrough"
    /\ UNCHANGED <<abortAt, FD, CurFn, BB, InsertBlock, AllocaInsertPt, locals,
                   emitterState, verifierRuns>>

\* Faulty variant: the dummy insert block is kept and given a return like any other
FallThrough_NoElision(bbs, blocks, b, retTy) ==
    [bbs |-> Emit(bbs, b, IF retTy = "void" THEN RetVoid ELSE RetUndef), blocks |-> blocks]

\* Faulty variant: the function's first block is taken for the insert block
FallThrough_OnEntry(bbs, blocks, b, retTy) ==
    IF isDummyBlock(bbs, b)
    THEN [bbs |-> EraseBlock(bbs, blocks[1]), blocks |-> Without(blocks, blocks[1])]
    ELSE [bbs |-> Emit(bbs, blocks[1], IF retTy = "void" THEN RetVoid ELSE RetUndef),
          blocks |-> blocks]

\* Faulty variant: the return is a void return whatever the function returns
FallThrough_AlwaysRetVoid(bbs, blocks, b, retTy) ==
    IF isDummyBlock(bbs, b)
    THEN [bbs |-> EraseBlock(bbs, b), blocks |-> Without(blocks, b)]
    ELSE [bbs |-> Emit(bbs, b, RetVoid), blocks |-> blocks]

\* ------------------------------------------------------ end of GenerateCode
\* lines 128-137: the dummy insert block is erased, any other gets a return
FallThrough(bbs, blocks, b, retTy) ==
    IF isDummyBlock(bbs, b)
    THEN [bbs |-> EraseBlock(bbs, b), blocks |-> Without(blocks, b)]
    ELSE [bbs |-> Emit(bbs, b, IF retTy = "void" THEN RetVoid ELSE RetUndef),
          blocks |-> blocks]

Fallthrough ==
    /\ pc = "fallthrough"
    /\ LET r == FallThrough(BB, CurFn.blocks, InsertBlock, CurFn.retTy) IN
          /\ BB' = r.bbs
          /\ CurFn' = [CurFn EXCEPT !.blocks = r.blocks]
    /\ pc' = "assertStack"
    /\ UNCHANGED <<abortAt, FD, InsertBlock, AllocaInsertPt, locals, emitterState,
                   verifierRuns>>

\* Faulty variant: the emptiness assertion is missing
StackBalanced_Unchecked(stack) == TRUE

\* lines 138-139
StackBalanced(stack) == stack = <<>>

AssertStack ==
    /\ pc = "assertStack"
    /\ IF StackBalanced(BreakContinueStack)
       THEN pc' = "removeAnchor" /\ abortAt' = abortAt
       ELSE Abort("mismatched push/pop in break/continue stack!")
    /\ UNCHANGED <<FD, CurFn, BB, InsertBlock, AllocaInsertPt, locals, emitterState,
                   verifierRuns>>

\* Faulty variant: the marker is forgotten, only the member is cleared
RemoveAnchor_Forgotten ==
    /\ pc = "removeAnchor"
    /\ AllocaInsertPt' = FALSE
    /\ pc' = "verify"
    /\ UNCHANGED <<abortAt, FD, CurFn, BB, InsertBlock, locals, emitterState, verifierRuns>>

\* lines 142-143
RemoveAnchor ==
    /\ pc = "removeAnchor"
    /\ BB' = [BB EXCEPT ![EntryBB].insts = Without(@, AllocaPt)]
    /\ AllocaInsertPt' = FALSE
    /\ pc' = "verify"
    /\ UNCHANGED <<abortAt, FD, CurFn, InsertBlock, locals, emitterState, verifierRuns>>

\* a block holding exactly one terminator, as its last instruction
Terminated(insts) ==
    /\ insts # <<>>
    /\ IsTerminator(insts[Len(insts)])
    /\ \A k \in 1..(Len(insts) - 1) : ~IsTerminator(insts[k])

\* verifyFunction: TRUE when the function is broken (some block of it is not terminated)
verifyFunction(bbs, blocks) ==
    \E k \in 1..Len(blocks) : ~Terminated(bbs[blocks[k]].insts)

\* Faulty variant: the verifier's verdict is not asserted
Verify_Unchecked ==
    /\ pc = "verify"
    /\ verifierRuns' = verifierRuns + 1
    /\ pc' = "done"
    /\ UNCHANGED <<abortAt, FD, CurFn, BB, InsertBlock, AllocaInsertPt, locals,
                   emitterState>>

\* line 146
Verify ==
    /\ pc = "verify"
    /\ verifierRuns' = verifierRuns + 1
    /\ IF verifyFunction(BB, CurFn.blocks)
       THEN Abort("verifyFunction")
       ELSE pc' = "done" /\ abortAt' = abortAt
    /\ UNCHANGED <<FD, CurFn, BB, InsertBlock, AllocaInsertPt, locals, emitterState>>

\* ------------------------------------------------------------ specifications
Prologue ==
    \/ Enter
    \/ SetLinkage
    \/ SetVisibility
    \/ SetParamAttrs
    \/ CreateEntry
    \/ NameAggResult
    \/ BindParam
    \/ ParamsDone

Epilogue ==
    \/ EmitStmtReturns
    \/ Fallthrough
    \/ AssertStack
    \/ RemoveAnchor
    \/ Verify

Emitter ==
    \/ \E l \in Labels : LookupLabel(l)
    \/ \E l \in Labels : EmitLabelStmt(l)
    \/ \E l \in Labels : EmitGoto(l)
    \/ \E n \in BlockNames : EmitStartBlock(n)
    \/ EmitInst
    \/ EmitReturn
    \/ EmitAlloca
    \/ PushBreakContinue
    \/ PopBreakContinue

Next == Prologue \/ Emitter \/ Epilogue

\* GenerateCode on a declaration whose body is empty
NextABI == Prologue \/ Epilogue

Spec == Init /\ [][Next]_vars

SpecABI == InitABI /\ [][NextABI]_vars

SpecOrder == InitOrder /\ [][Next]_vars

SpecArgs == InitArgs /\ [][NextABI]_vars

\* ===================================================================== claims
Last(seq) == seq[Len(seq)]

\* GenerateCode has run its fall-through step (lines 128-137)
PastFallthrough ==
    \/ pc \in {"assertStack", "removeAnchor", "verify", "done"}
    \/ pc = "aborted" /\ abortAt \in {"mismatched push/pop in break/continue stack!",
                                      "verifyFunction"}

\* C1 (fallthrough law): when EmitStmt has returned and the insert block is not a
\* dummy block, the fall-through step appends exactly one instruction to that
\* block, as its last: ret void if the function returns void, else ret undef.
C1_FallthroughLaw ==
    [][(pc = "fallthrough" /\ ~isDummyBlock(BB, InsertBlock))
        => /\ BB'[InsertBlock].insts =
                Append(BB[InsertBlock].insts,
                       IF CurFn.retTy = "void" THEN RetVoid ELSE RetUndef)
           /\ ~BB'[InsertBlock].erased]_vars

C1_Witness ==
    /\ pc = "assertStack"
    /\ InsertBlock # EntryBB
    /\ ~BB[InsertBlock].erased
    /\ Len(BB[InsertBlock].insts) > 1
    /\ Last(BB[InsertBlock].insts) = RetUndef

\* C2 (linkage precedence): once the linkage step has run, the function's linkage
\* is that of the first marker present in the order import, export, weak or
\* inline, static; external when none is present.
LinkageOrder(fd) ==
    << [on |-> fd.DLLImport,           linkage |-> "dllimport"],
       [on |-> fd.DLLExport,           linkage |-> "dllexport"],
       [on |-> fd.Weak \/ fd.Inline,   linkage |-> "weak"],
       [on |-> fd.Static,              linkage |-> "internal"],
       [on |-> TRUE,                   linkage |-> "external"] >>

FirstMatch(order) ==
    order[CHOOSE k \in 1..Len(order) : order[k].on /\ \A j \in 1..(k - 1) : ~order[j].on]

LinkageStepDone == pc \notin {"start", "linkage"} /\ abortAt # "Function already has body?"

C2_LinkagePrecedence ==
    LinkageStepDone => CurFn.linkage = FirstMatch(LinkageOrder(FD)).linkage

C2_Witness ==
    /\ pc = "done"
    /\ FD.DLLImport /\ FD.Static /\ ~FD.DLLExport
    /\ CurFn.linkage = "dllimport"

\* C3 (idempotent label lookup): the block a lookup returns is the label's entry
\* of LabelMap, an entry once set never changes, no two labels share a block,
\* and at most one block carries a label's name.
C3_LabelState ==
    /\ LabelBB.label \in Labels => LabelBB.bb = LabelMap[LabelBB.label] /\ LabelBB.bb # 0
    /\ \A l, m \in Labels : (l # m /\ LabelMap[l] # 0) => LabelMap[l] # LabelMap[m]
    /\ \A l \in Labels : Cardinality({b \in 1..Len(BB) : BB[b].name = l}) <= 1

C3_LabelLookupIdempotent ==
    /\ []C3_LabelState
    /\ [][\A l \in Labels : LabelMap[l] # 0 => LabelMap'[l] = LabelMap[l]]_vars

C3_Witness ==
    /\ Len(trace) = 3
    /\ trace[1] = Op("lookup", "L")
    /\ trace[2] = Op("goto", "L")
    /\ trace[3] = Op("lookup", "M")
    /\ LabelMap["L"] # 0 /\ LabelMap["M"] # 0
    /\ Len(BB) = 3

\* C4 (parameter attributes): once the attribute step has run, the function's
\* attributes are no-unwind exactly when NoThrow is present and no-return
\* exactly when NoReturn is present, each once; no list is set when neither is.
AttrNames(attrs) == {attrs[k].attr : k \in 1..Len(attrs)}

AttrStepDone ==
    pc \notin {"start", "linkage", "visibility", "attrs"}
      /\ abortAt # "Function already has body?"

C4_ParamAttrs ==
    AttrStepDone =>
      /\ ("nounwind" \in AttrNames(CurFn.paramAttrs)) = FD.NoThrow
      /\ ("noreturn" \in AttrNames(CurFn.paramAttrs)) = FD.NoReturn
      /\ AttrNames(CurFn.paramAttrs) \subseteq {"nounwind", "noreturn"}
      /\ Cardinality(AttrNames(CurFn.paramAttrs)) = Len(CurFn.paramAttrs)
      /\ CurFn.attrsSet = (FD.NoThrow \/ FD.NoReturn)

C4_Witness ==
    /\ pc = "done"
    /\ FD.NoThrow /\ FD.NoReturn
    /\ AttrNames(CurFn.paramAttrs) = {"nounwind", "noreturn"}
    /\ Len(CurFn.paramAttrs) = 2

\* C5 (dummy-block collapse): a StartBlock that directly follows a StartBlock
\* keeps the cursor on the same block, creates no block and changes nothing but
\* that block's name.
StartBlockAfterStartBlock ==
    /\ pc = "body"
    /\ trace # <<>>
    /\ Last(trace).op = "StartBlock"
    /\ Len(trace') = Len(trace) + 1
    /\ Last(trace').op = "StartBlock"

C5_DummyBlockCollapse ==
    [][StartBlockAfterStartBlock
        => /\ InsertBlock' = InsertBlock
           /\ BB' = [BB EXCEPT ![InsertBlock].name = Last(trace').arg]
           /\ CurFn' = CurFn]_vars

C5_Witness ==
    /\ Len(trace) = 3
    /\ trace[1] = Op("inst", "")
    /\ trace[2] = Op("StartBlock", "for.cond")
    /\ trace[3] = Op("StartBlock", "for.end")
    /\ Len(BB) = 2
    /\ BB[InsertBlock].name = "for.end"

\* C6 (empty body): for a declaration with a scalar result, no parameters and a
\* body that emits nothing, once the anchor is removed the function holds one
\* block, the entry block, and its only instruction is ret undef.
EmptyIntFunction ==
    /\ FD.ResultType = "int"
    /\ FD.NumParams = 0
    /\ trace = <<>>

C6_EmptyBody ==
    (EmptyIntFunction /\ pc \in {"verify", "done"})
      => /\ CurFn.blocks = <<EntryBB>>
         /\ BB[EntryBB].insts = <<RetUndef>>
         /\ BB[EntryBB].parent

C6_Witness ==
    /\ EmptyIntFunction
    /\ pc = "done"
    /\ verifierRuns = 1
    /\ AllocaInsertPt = FALSE

\* C7 (lone label): void g(void) { L: ; }, nothing jumping to L.
LoneLabel ==
    /\ FD.ResultType = "void"
    /\ FD.NumParams = 0
    /\ trace = <<Op("label", "L")>>

\* C7 as claimed: the entry block is discarded by the fall-through step.
C7_EntryDiscarded ==
    (LoneLabel /\ PastFallthrough)
      => /\ BB[EntryBB].erased
         /\ \A k \in 1..Len(CurFn.blocks) : CurFn.blocks[k] # EntryBB

\* C7 as amended: the entry block is not discarded by the fall-through step; it
\* stays the function's first block, and the block that step acts on is the
\* insert block, the block of L.
C7_EntryKept ==
    (LoneLabel /\ PastFallthrough)
      => /\ ~BB[EntryBB].erased
         /\ BB[EntryBB].parent
         /\ CurFn.blocks[1] = EntryBB
         /\ InsertBlock = LabelMap["L"]
         /\ InsertBlock # EntryBB

C7_Witness ==
    /\ LoneLabel
    /\ pc = "assertStack"
    /\ BB[InsertBlock].name = "L"

\* C8 (existing body): when the IR function already holds a body, GenerateCode
\* stops at its first assertion; the function's linkage, visibility, attributes
\* and blocks stay as they were.
HadBody == BB # <<>> /\ BB[1].name = "old"

C8_ExistingBodyAborts ==
    HadBody
      => /\ pc \in {"start", "aborted"}
         /\ pc = "aborted" => abortAt = "Function already has body?"
         /\ CurFn = Function(TRUE, FD.NumParams, FD.ResultType)
         /\ BB = OldBody(TRUE)

C8_Witness ==
    /\ HadBody
    /\ pc = "aborted"
    /\ FD.DLLImport /\ FD.NoThrow /\ FD.Visibility = "hidden"
    /\ CurFn.linkage = "external"

\* C9 (argument mismatch): when the IR function's argument count differs from
\* the declared parameters (plus one for an aggregate result), GenerateCode
\* aborts and the body is never emitted.  Stated here for the IR function that
\* has more arguments than the declaration needs; with fewer, the assertion of
\* line 119 stops the run.
BodyReached ==
    \/ pc \in {"body", "fallthrough", "assertStack", "removeAnchor", "verify", "done"}
    \/ pc = "aborted" /\ abortAt \in {"mismatched push/pop in break/continue stack!",
                                      "verifyFunction"}

C9_MismatchAborts ==
    CurFn.numArgs > ArgsOf(FD) => ~BodyReached

\* C10 (control-stack balance): a completed run has an empty stack; a run whose
\* emitter returned with a frame pushed stops at the emptiness assertion, with
\* the anchor still in the entry block and the verifier never run.
EmitterReturned == pc = "fallthrough" \/ PastFallthrough

C10_StackBalance ==
    /\ pc = "done" => BreakContinueStack = <<>>
    /\ (EmitterReturned /\ BreakContinueStack # <<>>)
         => /\ pc \in {"fallthrough", "assertStack", "aborted"}
            /\ pc = "aborted" => abortAt = "mismatched push/pop in break/continue stack!"
            /\ AllocaInsertPt
            /\ \E k \in 1..Len(BB[EntryBB].insts) : BB[EntryBB].insts[k] = AllocaPt
            /\ verifierRuns = 0

C10_Witness ==
    /\ pc = "aborted"
    /\ abortAt = "mismatched push/pop in break/continue stack!"
    /\ Len(BreakContinueStack) = 1
    /\ trace = <<Op("push", ""), Op("inst", "")>>

\* C11 (terminator invariant): when GenerateCode completes, every block of the
\* function that is reachable from the entry block holds exactly one
\* terminator, as its last instruction.
Attached(b) == \E k \in 1..Len(CurFn.blocks) : CurFn.blocks[k] = b

Succs(b) == {BB[b].insts[k].tgt : k \in {j \in 1..Len(BB[b].insts) : BB[b].insts[j].op = "br"}}

RECURSIVE ReachFrom(_)
ReachFrom(S) ==
    LET T == S \cup {c \in UNION {Succs(b) : b \in S} : Attached(c)}
    IN  IF T = S THEN S ELSE ReachFrom(T)

ReachableBlocks == ReachFrom({EntryBB})

AnchorPlaces(b) == {k \in 1..Len(BB[b].insts) : BB[b].insts[k] = AllocaPt}

AnchorGone == \A b \in 1..Len(BB) : AnchorPlaces(b) = {}

\* C12 as claimed: the anchor precedes every other instruction of the entry block.
C12_AnchorFirst ==
    /\ AllocaInsertPt => BB[EntryBB].insts # <<>> /\ BB[EntryBB].insts[1] = AllocaPt
    /\ pc = "done" => AnchorGone

\* C12 as amended: the anchor is in the entry block exactly once, only
\* stack-slot allocations precede it, and every other instruction of the
\* entry block follows it; once generation completes it is in no block.
C12_AnchorAfterAllocas ==
    /\ AllocaInsertPt
         => /\ Cardinality(AnchorPlaces(EntryBB)) = 1
            /\ \A k \in 1..Len(BB[EntryBB].insts) :
                  (\A a \in AnchorPlaces(EntryBB) : k < a) => BB[EntryBB].insts[k] = Alloca
    /\ pc \in {"verify", "done"} => AnchorGone /\ ~AllocaInsertPt

C12_Witness ==
    /\ pc = "body"
    /\ FD.NumParams = 1
    /\ trace = <<Op("inst", ""), Op("alloca", "")>>
    /\ BB[EntryBB].insts = <<Alloca, Alloca, AllocaPt, Store, Plain>>

\* C13 (dummy-block elision): when EmitStmt has returned and the insert block
\* has no instructions and no predecessors, the fall-through step removes that
\* block, and only it, from the function, adds no return, and leaves the
\* instructions of every block as they were.
NoPredecessor(b) ==
    \A c \in 1..Len(BB) : \A k \in 1..Len(BB[c].insts) :
        BB[c].erased \/ BB[c].insts[k].op # "br" \/ BB[c].insts[k].tgt # b

CursorIsDummy == BB[InsertBlock].insts = <<>> /\ NoPredecessor(InsertBlock)

LookupStep ==
    /\ Len(trace') = Len(trace) + 1
    /\ Last(trace').op = "lookup"

LabelEmitted(l) == \E k \in 1..Len(trace) : trace[k] = Op("label", l)

C14_LookupEffect ==
    LookupStep
      => /\ CurFn' = CurFn
         /\ InsertBlock' = InsertBlock
         /\ BreakContinueStack' = BreakContinueStack
         /\ \A b \in 1..Len(BB) : BB'[b] = BB[b]
         /\ IF LabelMap[Last(trace').arg] # 0
            THEN BB' = BB /\ LabelMap' = LabelMap
            ELSE /\ Len(BB') = Len(BB) + 1
                 /\ LabelMap'[Last(trace').arg] = Len(BB')
                 /\ BB'[Len(BB')].insts = <<>>
                 /\ ~BB'[Len(BB')].parent
                 /\ \A k \in 1..Len(CurFn'.blocks) : CurFn'.blocks[k] # Len(BB')

C14_LookupDoesNotAttach ==
    /\ [][C14_LookupEffect]_vars
    /\ [](\A l \in Labels :
            (LabelMap[l] # 0 /\ ~LabelEmitted(l))
              => BB[LabelMap[l]].insts = <<>> /\ ~BB[LabelMap[l]].parent)

C14_Witness ==
    /\ trace = <<Op("lookup", "L"), Op("label", "L"), Op("inst", "")>>
    /\ BB[LabelMap["L"]].insts = <<Plain>>
    /\ BB[LabelMap["L"]].parent

\* C15 (order of effects): linkage, visibility and attributes change only while
\* the function has no block and are final once it has one; a parameter is
\* bound only once the entry block holds the anchor; the body is emitted only
\* once every parameter is bound; the fall-through step's effects (a block
\* erased, a return synthesized) come only after EmitStmt has returned, and
\* the emitter performs nothing after that.
Count(seq, x) == Cardinality({k \in 1..Len(seq) : seq[k] = x})

AbiFields(fn) == <<fn.linkage, fn.visibility, fn.attrsSet, fn.paramAttrs>>

ErasedBlocks(bbs) == {b \in 1..Len(bbs) : bbs[b].erased}

C15_AbiApplied ==
    CurFn.blocks # <<>>
      => /\ CurFn.linkage = FirstMatch(LinkageOrder(FD)).linkage
         /\ CurFn.visibility = FD.Visibility
         /\ CurFn.attrsSet
         /\ AttrNames(CurFn.paramAttrs) = {"nounwind", "noreturn"}

C15_Steps ==
    /\ AbiFields(CurFn') # AbiFields(CurFn) => CurFn.blocks = <<>> /\ CurFn'.blocks = <<>>
    /\ (i' # i \/ AI' # AI)
         => /\ EntryBB # 0
            /\ Attached(EntryBB)
            /\ AnchorPlaces(EntryBB) # {}
            /\ trace = <<>>
    /\ trace' # trace
         => /\ i = FD.NumParams
            /\ Count(BB[EntryBB].insts, Store) = FD.NumParams
            /\ Count(BB[EntryBB].insts, Alloca) >= FD.NumParams
    /\ (ErasedBlocks(BB') # ErasedBlocks(BB) \/ pc' = "assertStack")
         => pc = "fallthrough" /\ trace' = trace
    /\ (pc = "fallthrough" \/ PastFallthrough) => trace' = trace

C15_EffectOrder ==
    /\ []C15_AbiApplied
    /\ [][C15_Steps]_vars

C15_Witness ==
    /\ pc = "done"
    /\ FD.NumParams = 1
    /\ FD.ResultType = "int"
    /\ trace = <<Op("inst", ""), Op("alloca", "")>>
    /\ CurFn.linkage = "dllimport"
    /\ Last(BB[EntryBB].insts) = RetUndef

\* C16 (verifier last): verifyFunction is called at most once, only when the
\* anchor has been removed, as the last step of GenerateCode; no block and no
\* instruction changes with or after the call.
C16_VerifierCall ==
    /\ verifierRuns' # verifierRuns
         => /\ verifierRuns = 0 /\ verifierRuns' = 1
            /\ ~AllocaInsertPt
            /\ AnchorGone
            /\ pc' \in {"done", "aborted"}
    /\ (verifierRuns' # verifierRuns \/ verifierRuns > 0)
         => BB' = BB /\ CurFn' = CurFn /\ InsertBlock' = InsertBlock

C16_VerifierLast ==
    /\ [](verifierRuns \in {0, 1})
    /\ [](verifierRuns = 1 => pc \in {"done", "aborted"} /\ AnchorGone)
    /\ [](pc = "done" => verifierRuns = 1)
    /\ [][C16_VerifierCall]_vars

C16_Witness ==
    /\ pc = "done"
    /\ verifierRuns = 1
    /\ trace = <<Op("alloca", ""), Op("return", ""), Op("StartBlock", "for.end")>>
    /\ CurFn.blocks = <<EntryBB>>

\* C17 (positional encoding): the k-th attribute pushed carries the index k - 1;
\* no-unwind carries 0, no-return carries 0 without NoThrow and 1 with it, and
\* the two never carry the same index.
IndexOf(attrs, a) == {attrs[k].index : k \in {j \in 1..Len(attrs) : attrs[j].attr = a}}

C17_AttrIndices ==
    AttrStepDone
      => /\ \A k \in 1..Len(CurFn.paramAttrs) : CurFn.paramAttrs[k].index = k - 1
         /\ FD.NoThrow => IndexOf(CurFn.paramAttrs, "nounwind") = {0}
         /\ FD.NoReturn
              => IndexOf(CurFn.paramAttrs, "noreturn") = {IF FD.NoThrow THEN 1 ELSE 0}
         /\ IndexOf(CurFn.paramAttrs, "nounwind") \cap IndexOf(CurFn.paramAttrs, "noreturn") = {}
         /\ ParamAttrsVec = CurFn.paramAttrs

C17_Witness ==
    /\ pc = "entry"
    /\ FD.NoThrow /\ FD.NoReturn
    /\ CurFn.paramAttrs = <<[index |-> 0, attr |-> "nounwind"], [index |-> 1, attr |-> "noreturn"]>>

\* C18 (entry block is never dummy while the anchor is present): as long as the
\* anchor exists it sits in the entry block, which stays attached; a StartBlock
\* issued with the cursor in the entry block appends a fresh block, leaves the
\* entry block's name and contents alone and moves the cursor to the new block;
\* the fallthrough step with the cursor in the entry block removes no block.
StartBlockInEntry ==
    /\ pc = "body"
    /\ AllocaInsertPt
    /\ InsertBlock = EntryBB
    /\ Len(trace') = Len(trace) + 1
    /\ Last(trace').op = "StartBlock"

FallthroughInEntry ==
    /\ pc = "fallthrough"
    /\ AllocaInsertPt
    /\ InsertBlock = EntryBB

C18_StartBlockInEntry ==
    StartBlockInEntry
      => /\ Len(BB') = Len(BB) + 1
         /\ \A b \in 1..Len(BB) : BB'[b] = BB[b]
         /\ BB'[Len(BB')].name = Last(trace').arg
         /\ BB'[Len(BB')].insts = <<>>
         /\ InsertBlock' = Len(BB')
         /\ CurFn'.blocks = Append(CurFn.blocks, Len(BB'))

C18_FallthroughInEntry ==
    FallthroughInEntry
      => /\ CurFn'.blocks = CurFn.blocks
         /\ ~BB'[EntryBB].erased
         /\ Len(BB'[EntryBB].insts) = Len(BB[EntryBB].insts) + 1
         /\ IsTerminator(Last(BB'[EntryBB].insts))

C18_EntryNeverDummy ==
    /\ [](AllocaInsertPt
            => /\ AnchorPlaces(EntryBB) # {}
               /\ BB[EntryBB].name = "entry"
               /\ BB[EntryBB].parent /\ ~BB[EntryBB].erased)
    /\ [][C18_StartBlockInEntry]_vars
    /\ [][C18_FallthroughInEntry]_vars

C18_Witness ==
    /\ pc = "body"
    /\ AllocaInsertPt
    /\ trace = <<Op("StartBlock", "for.cond")>>
    /\ BB[EntryBB].name = "entry"
    /\ InsertBlock # EntryBB
    /\ BB[InsertBlock].name = "for.cond"
    /\ CurFn.blocks = <<EntryBB, InsertBlock>>

\* C19 as claimed (cursor stays attached): once generation completes, the
\* insertion cursor refers to a block that has not been erased and is in the
\* function's block list.
C19_CursorAttached ==
    pc = "done"
      => /\ ~BB[InsertBlock].erased
         /\ BB[InsertBlock].parent
         /\ \E k \in 1..Len(CurFn.blocks) : CurFn.blocks[k] = InsertBlock

====
